---- MODULE Spec2Model ----
(***************************************************************************)
(* movi-player, src/wasm: the I/O bridge between the demuxing engine's     *)
(* blocking read/seek callbacks and the asynchronous byte-source provider. *)
(*                                                                         *)
(* Integer widths are scaled: one "32-bit" half of the source is HalfBits  *)
(* bits wide here, int64_t is 2*HalfBits bits wide.  All casts, masks,     *)
(* shifts and wrap-arounds are computed at that width, so the 2^31, 2^32   *)
(* and 2^63 boundaries of the source are the Half \div 2, Half and         *)
(* Two63 boundaries of the model.                                          *)
(***************************************************************************)
EXTENDS Integers, Sequences, FiniteSets, TLC

\* ----------------------------------------------------------------- bounds
HalfBits == 3
\* the largest timestamp, in time-base ticks, of an access unit
MaxTs == 4
\* the locator's scan bound: max_packets = 2000 in the source, scaled down
MaxPackets == 3
\* the fractions of a tick a target in seconds can tell apart
SubTicks == 2
MaxFileSize == 4
MaxOverrun == 1
MaxBufSize == 2
SeekMargin == 1

\* -------------------------------------------------------- integer widths
RECURSIVE Pow2(_)
Pow2(n) == IF n = 0 THEN 1 ELSE 2 * Pow2(n - 1)

Half == Pow2(HalfBits)
Two31 == Half \div 2
Two64 == Half * Half
Two63 == Two64 \div 2
Int64Max == Two63 - 1

\* (int64_t) of a mathematical integer: two's complement wrap-around
ToInt64(x) == ((x + Two63) % Two64) - Two63
\* (uint32_t) of an integer
ToUint32(x) == x % Half
\* (int) of a uint32_t: the same bits read as signed
ToInt(u) == IF u >= Two31 THEN u - Half ELSE u

\* ---------------------------------------------------- program constants
AVERROR_EOF == -541478725
SEEK_SET == 0
SEEK_CUR == 1
SEEK_END == 2
AVSEEK_SIZE == 65536

Sessions == {"movi", "thumb"}

\* a position the provider may push the cursor to by over-reporting
MaxPosition == MaxFileSize + MaxOverrun

\* ------------------------------------------------------------ offset codec
\* avio_read_callback: uint32_t position_low = (uint32_t)(position & 0xFFFFFFFF)
position_low(position) == ToUint32(position % Half)
\* avio_read_callback: uint32_t position_high = (uint32_t)(position >> 32)
position_high(position) == ToUint32(position \div Half)
\* avio_read_callback: int offset_low = (int)position_low
offset_low(position) == ToInt(position_low(position))
\* avio_read_callback: int offset_high = (int)position_high
offset_high(position) == ToInt(position_high(position))

\* x >>> 0 of JavaScript
Unsigned(x) == x % Half

\* a reconstruction that adds the signed halves (no >>> 0)
js_read_offset_signed(low, high) == low + high * Half

\* js_read_async: offset = BigInt(low >>> 0) + BigInt(high >>> 0) * 4294967296n
js_read_offset(low, high) == Unsigned(low) + Unsigned(high) * Half

\* thumbnail_avio_read passes (int)position_low, (int)position_high
thumbnail_offset_low(position) == ToInt(ToUint32(position % Half))
thumbnail_offset_high(position) == ToInt(ToUint32(position \div Half))

\* ----------------------------------------------------------- read callback
\* a bridge that stores the pending read and resolves nothing by itself
js_read_async_never_resolves(onReadRequest) == {}

\* js_read_async: the values the promise is resolved with inside the call
\* itself: none when Module.onReadRequest is registered (the provider will
\* resolve), resolve(-1) when it is not
js_read_async(onReadRequest) == IF onReadRequest THEN {} ELSE {-1}

\* avio_read_callback after js_read_async returned bytes_read
avio_read_advance_requested(position, buf_size, bytes_read) ==
    IF bytes_read > 0
    THEN [position |-> ToInt64(position + buf_size), ret |-> bytes_read]
    ELSE IF bytes_read = 0
    THEN [position |-> position, ret |-> AVERROR_EOF]
    ELSE [position |-> position, ret |-> bytes_read]

avio_read_eof_as_zero(position, buf_size, bytes_read) ==
    IF bytes_read > 0
    THEN [position |-> ToInt64(position + bytes_read), ret |-> bytes_read]
    ELSE [position |-> position, ret |-> bytes_read]

avio_read_error_as_minus_one(position, buf_size, bytes_read) ==
    IF bytes_read > 0
    THEN [position |-> ToInt64(position + bytes_read), ret |-> bytes_read]
    ELSE IF bytes_read = 0
    THEN [position |-> position, ret |-> AVERROR_EOF]
    ELSE [position |-> position, ret |-> -1]

avio_read_callback(position, buf_size, bytes_read) ==
    IF bytes_read > 0
    THEN [position |-> ToInt64(position + bytes_read), ret |-> bytes_read]
    ELSE IF bytes_read = 0
    THEN [position |-> position, ret |-> AVERROR_EOF]
    ELSE [position |-> position, ret |-> bytes_read]

\* mutant: the thumbnail read callback passes a provider count of 0 through
thumbnail_read_zero_passed(position, buf_size, bytes_read) ==
    IF bytes_read > 0
    THEN [position |-> ToInt64(position + bytes_read), ret |-> bytes_read]
    ELSE [position |-> position, ret |-> bytes_read]

thumbnail_avio_read(position, buf_size, bytes_read) ==
    IF bytes_read > 0
    THEN [position |-> ToInt64(position + bytes_read), ret |-> bytes_read]
    ELSE IF bytes_read = 0
    THEN [position |-> position, ret |-> AVERROR_EOF]
    ELSE [position |-> position, ret |-> bytes_read]

\* ----------------------------------------------------------- seek callback
seek_no_upper_bound(position, file_size, offset, whence) ==
    IF whence = AVSEEK_SIZE
    THEN [position |-> position, ret |-> file_size]
    ELSE IF whence \notin {SEEK_SET, SEEK_CUR, SEEK_END}
    THEN [position |-> position, ret |-> -1]
    ELSE LET new_pos == CASE whence = SEEK_SET -> offset
                          [] whence = SEEK_CUR -> ToInt64(position + offset)
                          [] whence = SEEK_END -> ToInt64(file_size + offset)
         IN  IF new_pos < 0
             THEN [position |-> position, ret |-> -1]
             ELSE [position |-> new_pos, ret |-> new_pos]

seek_end_from_position(position, file_size, offset, whence) ==
    IF whence = AVSEEK_SIZE
    THEN [position |-> position, ret |-> file_size]
    ELSE IF whence \notin {SEEK_SET, SEEK_CUR, SEEK_END}
    THEN [position |-> position, ret |-> -1]
    ELSE LET new_pos == CASE whence = SEEK_SET -> offset
                          [] whence = SEEK_CUR -> ToInt64(position + offset)
                          [] whence = SEEK_END -> ToInt64(position + offset)
         IN  IF new_pos < 0 \/ new_pos > file_size
             THEN [position |-> position, ret |-> -1]
             ELSE [position |-> new_pos, ret |-> new_pos]

seek_size_moves_to_end(position, file_size, offset, whence) ==
    IF whence = AVSEEK_SIZE
    THEN [position |-> file_size, ret |-> file_size]
    ELSE IF whence \notin {SEEK_SET, SEEK_CUR, SEEK_END}
    THEN [position |-> position, ret |-> -1]
    ELSE LET new_pos == CASE whence = SEEK_SET -> offset
                          [] whence = SEEK_CUR -> ToInt64(position + offset)
                          [] whence = SEEK_END -> ToInt64(file_size + offset)
         IN  IF new_pos < 0 \/ new_pos > file_size
             THEN [position |-> position, ret |-> -1]
             ELSE [position |-> new_pos, ret |-> new_pos]

seek_clamps(position, file_size, offset, whence) ==
    IF whence = AVSEEK_SIZE
    THEN [position |-> position, ret |-> file_size]
    ELSE IF whence \notin {SEEK_SET, SEEK_CUR, SEEK_END}
    THEN [position |-> position, ret |-> -1]
    ELSE LET new_pos == CASE whence = SEEK_SET -> offset
                          [] whence = SEEK_CUR -> ToInt64(position + offset)
                          [] whence = SEEK_END -> ToInt64(file_size + offset)
         IN  IF new_pos < 0
             THEN [position |-> position, ret |-> -1]
             ELSE IF new_pos > file_size
             THEN [position |-> file_size, ret |-> file_size]
             ELSE [position |-> new_pos, ret |-> new_pos]

avio_seek_callback(position, file_size, offset, whence) ==
    IF whence = AVSEEK_SIZE
    THEN [position |-> position, ret |-> file_size]
    ELSE IF whence \notin {SEEK_SET, SEEK_CUR, SEEK_END}
    THEN [position |-> position, ret |-> -1]
    ELSE LET new_pos == CASE whence = SEEK_SET -> offset
                          [] whence = SEEK_CUR -> ToInt64(position + offset)
                          [] whence = SEEK_END -> ToInt64(file_size + offset)
         IN  IF new_pos < 0 \/ new_pos > file_size
             THEN [position |-> position, ret |-> -1]
             ELSE [position |-> new_pos, ret |-> new_pos]

thumbnail_avio_seek(position, file_size, offset, whence) ==
    IF whence = AVSEEK_SIZE
    THEN [position |-> position, ret |-> file_size]
    ELSE IF whence \notin {SEEK_SET, SEEK_CUR, SEEK_END}
    THEN [position |-> position, ret |-> -1]
    ELSE LET new_pos == CASE whence = SEEK_SET -> offset
                          [] whence = SEEK_CUR -> ToInt64(position + offset)
                          [] whence = SEEK_END -> ToInt64(file_size + offset)
         IN  IF new_pos < 0 \/ new_pos > file_size
             THEN [position |-> position, ret |-> -1]
             ELSE [position |-> new_pos, ret |-> new_pos]

\* ------------------------------------------------------------------ state
VARIABLES
    position,      \* ctx->position of each session
    file_size,     \* ctx->file_size of each session
    avio_pos,      \* the engine's AVIOContext.pos of each session (ctx->fmt_ctx->pb)
    pc,            \* "idle", or "read": suspended inside js_read_async
    buf_size,      \* buf_size of the suspended read callback (0 when idle)
    pendingRead,   \* Module._pendingRead: {} or {[owner, settled]}
    readRequests,  \* Module.onReadRequest(offset, size) calls not yet answered
    handler,       \* Module.onReadRequest is registered (the host sets it
                   \* before it opens a session, or never)
    hl,            \* the exported operation in progress: "none" or "seek_to"
    last,          \* observer: the last completed callback or operation
    sum,           \* observer: bytes returned by the reads of each session
                   \* since its last accepted seek to offset 0 (-1: none)
    fsArgs,        \* observer: the <<low, high>> halves last passed to
                   \* movi_set_file_size / movi_thumbnail_create, if any
    loc,           \* the locals of movi_thumbnail_read_keyframe, its
                   \* callback argument, and observers of the units it read
    res,           \* what each session holds: every resource is "none"
                   \* (never acquired, or pointer NULL), "live" or "freed"
    thumb,         \* the thumbnail session between calls: whether it has a
                   \* video stream, what ctx->pkt holds, the state of its
                   \* decoder, and an observer of the last decode call
    call,          \* observer: the last exported operation called on a
                   \* session in whatever state the session is in
    sub            \* ctx->subtitle as movi_get_subtitle_text reads it, the
                   \* size of the buffer it is given, and what it did

io == <<position, file_size, avio_pos, pc, buf_size, pendingRead,
        readRequests, handler, hl, last>>
aux2 == <<thumb, call, sub>>
aux == <<sum, fsArgs, loc, res, aux2>>
vars == <<io, aux>>

\* AV_NOPTS_VALUE is INT64_MIN, LLONG_MAX is INT64_MAX
AV_NOPTS_VALUE == -Two63
LLONG_MAX == Int64Max

\* no locator call made yet
LocIdle ==
    [pc |-> "idle", timestamp |-> 0, start_time |-> AV_NOPTS_VALUE,
     max_packets |-> 0, found_keyframe |-> FALSE,
     best_keyframe_dist |-> LLONG_MAX, best |-> AV_NOPTS_VALUE,
     result |-> 0, reads |-> 0, seen |-> {}, keyTs |-> FALSE,
     ended |-> "none", pre |-> {}, keys |-> {},
     lastKind |-> "none", lastTs |-> AV_NOPTS_VALUE, seeks |-> <<>>,
     ready |-> 0]

\* no decode call made yet
NoDecode ==
    [op |-> "none", ret |-> 0, send |-> 0, drained |-> FALSE, first |-> FALSE]
\* an opened thumbnail session with a video stream and a decoder, before
\* its first call: ctx->pkt is blank as av_packet_alloc left it
ThumbIdle ==
    [video |-> TRUE, pkt |-> "blank", dec |-> "ready", decode |-> NoDecode]
\* no exported operation called yet
NoOp == [op |-> "none", ret |-> 0, deref |-> {}, asked |-> FALSE]
\* movi_get_subtitle_text not called yet: nothing written
NoText ==
    [called |-> FALSE, ret |-> 0, total_len |-> 0, buffer |-> <<>>,
     writes |-> {}, text |-> {}, over |-> FALSE]
NoSub == [rects |-> <<>>, buffer_size |-> 0, out |-> NoText]

\* the resources a session may hold; ctx is the session object itself
Resources ==
    {"ctx", "pkt", "avio_buffer", "avio_ctx", "fmt_ctx", "decoders",
     "resamplers", "decoder", "resampler", "subtitle", "frame",
     "resampled_frame", "dec_ctx", "sws_ctx", "rgb_frame", "rgb_buffer"}
Nothing == [r \in Resources |-> "none"]
Acquire(held, R) == [r \in Resources |-> IF r \in R THEN "live" ELSE held[r]]

\* movi_create / movi_thumbnail_create: the object and its packet
movi_create(held) == Acquire(held, {"ctx", "pkt"})
\* movi_open, every allocation succeeding
movi_open(held) ==
    Acquire(held, {"avio_buffer", "avio_ctx", "fmt_ctx", "decoders",
                   "resamplers", "frame", "resampled_frame"})
\* movi_thumbnail_open, every allocation succeeding
movi_thumbnail_open(held) ==
    Acquire(held, {"avio_buffer", "avio_ctx", "fmt_ctx", "dec_ctx", "frame",
                   "rgb_frame"})
Opened ==
    [s \in Sessions |->
        IF s = "movi" THEN movi_open(movi_create(Nothing))
                      ELSE movi_thumbnail_open(movi_create(Nothing))]

AuxInit ==
    /\ sum = [s \in Sessions |-> -1]
    /\ fsArgs = {}
    /\ loc = LocIdle
    /\ res = Opened
    /\ thumb = ThumbIdle
    /\ call = NoOp
    /\ sub = NoSub

NoCall == [op |-> "none", s |-> "movi", pos0 |-> 0, fs0 |-> 0, arg |-> 0,
           whence |-> 0, resp |-> {}, ret |-> 0, nreq |-> 0,
           waited |-> FALSE]

\* what the provider may resolve a read of `size` bytes with
ProviderErrors == {-2, -1}
Responses(size) == ProviderErrors \cup (0 .. size)

Whences == {SEEK_SET, SEEK_CUR, SEEK_END, AVSEEK_SIZE, 3}
Offsets == (-(MaxPosition + SeekMargin)) .. (MaxPosition + SeekMargin)

\* the byte offset a seek asks for, as an exact integer
ExactTarget(pos, size, offset, whence) ==
    CASE whence = SEEK_SET -> offset
      [] whence = SEEK_CUR -> pos + offset
      [] whence = SEEK_END -> size + offset
      [] OTHER -> offset

\* the seeks the engine is let to ask for: targets from SeekMargin below 0
\* to SeekMargin above the end of the file
SeekInput(s, offset, whence) ==
    LET t == ExactTarget(position[s], file_size[s], offset, whence)
    IN  t >= -SeekMargin /\ t <= file_size[s] + SeekMargin

AllIdle == \A t \in Sessions : pc[t] = "idle"
\* the callbacks of session s may run: nothing is suspended, and an exported
\* operation in progress belongs to s
MayCall(s) == AllIdle /\ (hl = "seek_to" => s = "movi")

ReadOffset(s) ==
    IF s = "movi"
    THEN js_read_offset(offset_low(position[s]), offset_high(position[s]))
    ELSE js_read_offset(thumbnail_offset_low(position[s]),
                        thumbnail_offset_high(position[s]))

ReadReturn(s, bytes_read) ==
    IF s = "movi"
    THEN avio_read_callback(position[s], buf_size[s], bytes_read)
    ELSE thumbnail_avio_read(position[s], buf_size[s], bytes_read)

SeekReturn(s, offset, whence) ==
    IF s = "movi"
    THEN avio_seek_callback(position[s], file_size[s], offset, whence)
    ELSE thumbnail_avio_seek(position[s], file_size[s], offset, whence)

\* the engine's fill_buffer: AVIOContext.pos advances by the bytes returned
AvioAfterRead(pos, ret) == IF ret > 0 THEN pos + ret ELSE pos
\* the engine's avio_seek: AVIOContext.pos follows an accepted seek
AvioAfterSeek(pos, whence, ret) ==
    IF whence = AVSEEK_SIZE \/ ret < 0 THEN pos ELSE ret
\* avio_tell on a flushed (empty) buffer is AVIOContext.pos
avio_tell(s) == avio_pos[s]

Init ==
    /\ \E bytes \in 0 .. MaxFileSize : file_size = [s \in Sessions |-> bytes]
    /\ position = [s \in Sessions |-> 0]
    /\ avio_pos = [s \in Sessions |-> 0]
    /\ pc = [s \in Sessions |-> "idle"]
    /\ buf_size = [s \in Sessions |-> 0]
    /\ pendingRead = {}
    /\ readRequests = {}
    /\ handler \in BOOLEAN
    /\ hl = "none"
    /\ last = NoCall
    /\ AuxInit

\* the end position of the read of session s that has just returned k > 0
\* bytes, when that is the last thing that happened
JustRead(s) ==
    IF last.op = "read" /\ last.s = s
    THEN {[end |-> last.pos0 + k, short |-> k < last.arg] :
             k \in {x \in last.resp : x > 0}}
    ELSE {}

\* The engine calls the read callback of session s with a buffer of `size`
\* bytes: the position is split, js_read_async rebuilds the offset, stores
\* Module._pendingRead and either hands the request to the provider and
\* suspends, or resolves by itself and the callback returns at once.
ReadIssue(s, size) ==
    /\ LET offset == ReadOffset(s)
           now == js_read_async(handler)
       IN  IF now = {}
           THEN /\ pendingRead' = {[owner |-> s, settled |-> FALSE]}
                /\ readRequests' =
                       IF handler
                       THEN readRequests \cup
                            {[offset |-> offset, size |-> size, from |-> s,
                              v |-> position[s], after |-> JustRead(s)]}
                       ELSE readRequests
                /\ pc' = [pc EXCEPT ![s] = "read"]
                /\ buf_size' = [buf_size EXCEPT ![s] = size]
                /\ last' = NoCall
                /\ UNCHANGED <<position, avio_pos>>
           ELSE \E bytes_read \in now :
                LET r == IF s = "movi"
                         THEN avio_read_callback(position[s], size, bytes_read)
                         ELSE thumbnail_avio_read(position[s], size, bytes_read)
                IN  /\ pendingRead' = {[owner |-> s, settled |-> TRUE]}
                    /\ position' = [position EXCEPT ![s] = r.position]
                    /\ avio_pos' = [avio_pos EXCEPT
                                      ![s] = AvioAfterRead(avio_pos[s], r.ret)]
                    /\ last' = [op |-> "read", s |-> s, pos0 |-> position[s],
                                fs0 |-> file_size[s], arg |-> size,
                                whence |-> 0, resp |-> {}, ret |-> r.ret,
                                nreq |-> 0, waited |-> FALSE]
                    /\ UNCHANGED <<pc, buf_size, readRequests>>
    /\ UNCHANGED <<file_size, handler, hl>>

\* the read callback as the serialised host lets it run
ReadCall(s, size) == MayCall(s) /\ ReadIssue(s, size) /\ UNCHANGED aux

\* The provider answers request req with k: Module._pendingRead.resolve(k)
\* settles the stored promise and its owner resumes in the read callback.
ResolveApply(req, k) ==
    /\ req \in readRequests
    /\ k \in Responses(req.size)
    /\ \E slot \in pendingRead :
          /\ ~slot.settled
          /\ pc[slot.owner] = "read"
          /\ LET s == slot.owner
                 r == ReadReturn(s, k)
             IN  /\ position' = [position EXCEPT ![s] = r.position]
                 /\ avio_pos' = [avio_pos EXCEPT
                                   ![s] = AvioAfterRead(avio_pos[s], r.ret)]
                 /\ pc' = [pc EXCEPT ![s] = "idle"]
                 /\ buf_size' = [buf_size EXCEPT ![s] = 0]
                 /\ pendingRead' = {[owner |-> s, settled |-> TRUE]}
                 /\ last' = [op |-> "read", s |-> s, pos0 |-> position[s],
                             fs0 |-> file_size[s], arg |-> buf_size[s],
                             whence |-> 0, resp |-> {k}, ret |-> r.ret,
                             nreq |-> 1, waited |-> TRUE]
    /\ readRequests' = readRequests \ {req}
    /\ UNCHANGED <<file_size, handler, hl>>

\* the positions the runs visit are kept at or below MaxPosition
Resolve(req, k) ==
    /\ \A slot \in pendingRead :
          (~slot.settled /\ k > 0) => position[slot.owner] + k <= MaxPosition
    /\ ResolveApply(req, k)

ProviderResolve(req, k) == Resolve(req, k) /\ UNCHANGED aux

\* The engine calls the seek callback of session s: it runs to completion
\* without calling the bridge.
SeekApply(s, offset, whence) ==
    /\ LET r == SeekReturn(s, offset, whence)
       IN  /\ position' = [position EXCEPT ![s] = r.position]
           /\ avio_pos' = [avio_pos EXCEPT
                             ![s] = AvioAfterSeek(avio_pos[s], whence, r.ret)]
           /\ last' = [op |-> "seek", s |-> s, pos0 |-> position[s],
                       fs0 |-> file_size[s], arg |-> offset,
                       whence |-> whence, resp |-> {}, ret |-> r.ret,
                       nreq |-> 0, waited |-> FALSE]
    /\ UNCHANGED <<file_size, pc, buf_size, pendingRead, readRequests,
                   handler, hl>>

Seek(s, offset, whence) ==
    /\ MayCall(s)
    /\ SeekInput(s, offset, whence)
    /\ SeekApply(s, offset, whence)

SeekCall(s, offset, whence) == Seek(s, offset, whence) /\ UNCHANGED aux

\* movi_seek_to up to its call of avformat_seek_file: the I/O buffer is
\* flushed, then the engine seeks through the read and seek callbacks.
SeekToBegin ==
    /\ hl = "none"
    /\ AllIdle
    /\ hl' = "seek_to"
    /\ last' = NoCall
    /\ UNCHANGED <<position, file_size, avio_pos, pc, buf_size, pendingRead,
                   readRequests, handler>>
    /\ UNCHANGED aux

\* movi_seek_to after avformat_seek_file (and its av_seek_frame fallback)
\* returned ret: on success the buffer is flushed again and the position is
\* taken from avio_tell, in the Matroska branch and in the other one.
movi_seek_to_position(ok, matroska, current_pos, position_now) ==
    IF ok THEN current_pos ELSE position_now

\* the bytes the engine's buffer may hold beyond its read pointer when
\* avformat_seek_file returns: none after a seek callback (avio_seek empties
\* the buffer), at most those of the last fill after a read callback
Buffered(s) ==
    IF last.op = "read" /\ last.s = s /\ last.ret > 0 THEN last.ret ELSE 0

\* avio_flush on a read context drops the buffered bytes and leaves
\* AVIOContext.pos where it is: the offset the engine's seek selected is
\* avio_tell before the flush, pos less the unread bytes
selected_offset(pos, unread) == pos - unread

SeekToEnd(ok, matroska, unread) ==
    /\ hl = "seek_to"
    /\ AllIdle
    /\ unread <= Buffered("movi")
    /\ hl' = "none"
    /\ position' = [position EXCEPT
                      !["movi"] = movi_seek_to_position(ok, matroska,
                                      avio_tell("movi"), position["movi"])]
    /\ last' = [NoCall EXCEPT !.op = "seek_to", !.pos0 = position["movi"],
                              !.fs0 = file_size["movi"],
                              !.arg = IF ok
                                      THEN selected_offset(avio_pos["movi"],
                                                           unread)
                                      ELSE 0,
                              !.ret = IF ok THEN 0 ELSE -1]
    /\ UNCHANGED <<file_size, avio_pos, pc, buf_size, pendingRead,
                   readRequests, handler>>
    /\ UNCHANGED aux

Next ==
    \/ \E s \in Sessions, size \in 1 .. MaxBufSize : ReadCall(s, size)
    \/ \E req \in readRequests, k \in (-2) .. MaxBufSize : ProviderResolve(req, k)
    \/ \E s \in Sessions, offset \in Offsets, whence \in Whences :
          SeekCall(s, offset, whence)
    \/ SeekToBegin
    \/ \E ok \in BOOLEAN, matroska \in BOOLEAN, unread \in 0 .. MaxBufSize :
          SeekToEnd(ok, matroska, unread)

Spec == Init /\ [][Next]_vars

\* A session at any non-negative 64-bit position of a file of the largest
\* size, reading: every value the offset codec can be given.
InitCodec ==
    /\ file_size = [s \in Sessions |-> Int64Max]
    /\ \E v \in 0 .. Int64Max :
          /\ position = [s \in Sessions |-> v]
          /\ avio_pos = [s \in Sessions |-> v]
    /\ pc = [s \in Sessions |-> "idle"]
    /\ buf_size = [s \in Sessions |-> 0]
    /\ pendingRead = {}
    /\ readRequests = {}
    /\ handler = TRUE
    /\ hl = "none"
    /\ last = NoCall
    /\ AuxInit

NextCodec ==
    \/ \E s \in Sessions, size \in 1 .. MaxBufSize : ReadCall(s, size)
    \/ \E req \in readRequests, k \in (-2) .. MaxBufSize : ProviderResolve(req, k)

SpecCodec == InitCodec /\ [][NextCodec]_vars

\* ------------------------------------------ seeks over the 64-bit range
\* Files of the sizes where the widths matter, a session at the ends of the
\* file or around 2^31 and 2^32, at most one read, then one seek with any
\* 64-bit offset.
RangeFileSizes == {0, Two31, Half, Int64Max}
RangePositions(bytes) ==
    {v \in {0, 1, Two31, Half, bytes - 1, bytes} : 0 <= v /\ v <= bytes}

InitRange ==
    /\ \E bytes \in RangeFileSizes :
          /\ file_size = [s \in Sessions |-> bytes]
          /\ \E v \in RangePositions(bytes) :
                /\ position = [s \in Sessions |-> v]
                /\ avio_pos = [s \in Sessions |-> v]
    /\ pc = [s \in Sessions |-> "idle"]
    /\ buf_size = [s \in Sessions |-> 0]
    /\ pendingRead = {}
    /\ readRequests = {}
    /\ handler = TRUE
    /\ hl = "none"
    /\ last = NoCall
    /\ AuxInit

RangeRead(s, size) == last.op = "none" /\ ReadCall(s, size)

RangeResolve(req, k) == ResolveApply(req, k) /\ UNCHANGED aux

RangeSeek(s, offset, whence) ==
    /\ MayCall(s)
    /\ last.op # "seek"
    /\ SeekApply(s, offset, whence)
    /\ UNCHANGED aux

NextRange ==
    \/ \E s \in Sessions, size \in 1 .. MaxBufSize : RangeRead(s, size)
    \/ \E req \in readRequests, k \in (-2) .. MaxBufSize : RangeResolve(req, k)
    \/ /\ last.op # "seek"
       /\ \E s \in Sessions, offset \in (-Two63) .. Int64Max,
             whence \in Whences : RangeSeek(s, offset, whence)

SpecRange == InitRange /\ [][NextRange]_vars

\* ------------------------------------------------- two sessions at once
\* A host that keeps two sessions busy at once: the read callback of one
\* session runs while the other session is suspended in js_read_async.
\* The callback itself is the same code; only the host's serialisation
\* (MayCall) is gone.
ReadConcurrent(s, size) ==
    /\ pc[s] = "idle"
    /\ hl = "none"
    /\ ReadIssue(s, size)
    /\ UNCHANGED aux

\* The provider answers request req through Module._pendingRead.resolve
\* when the stored promise is already settled: resolving it again does
\* nothing, and the answer is lost.
ResolveSettled(req, k) ==
    /\ req \in readRequests
    /\ k \in Responses(req.size)
    /\ \E slot \in pendingRead : slot.settled
    /\ readRequests' = readRequests \ {req}
    /\ UNCHANGED <<position, file_size, avio_pos, pc, buf_size, pendingRead,
                   handler, hl, last>>
    /\ UNCHANGED aux

InitMulti == Init /\ handler

NextMulti ==
    \/ \E s \in Sessions, size \in 1 .. MaxBufSize : ReadConcurrent(s, size)
    \/ \E req \in readRequests, k \in (-2) .. MaxBufSize : ProviderResolve(req, k)
    \/ \E req \in readRequests, k \in (-2) .. MaxBufSize : ResolveSettled(req, k)

SpecMulti == InitMulti /\ [][NextMulti]_vars

\* ------------------------------------------------- the honest provider
\* A provider that serves the file itself: a request for `size` bytes at
\* `offset` of a file of `bytes` bytes is answered with what is left there.
Min(a, b) == IF a <= b THEN a ELSE b
HonestCount(offset, size, bytes) == Min(size, bytes - offset)

\* sum restarts at an accepted seek to offset 0, is lost at an accepted seek
\* elsewhere, and is kept by a size query or a rejected seek
SumAfterSeek(old, whence, ret) ==
    IF whence \in {SEEK_SET, SEEK_CUR, SEEK_END} /\ ret >= 0
    THEN (IF ret = 0 THEN 0 ELSE -1)
    ELSE old
\* sum grows by every positive count a read returns
SumAfterRead(old, ret) == IF old >= 0 /\ ret > 0 THEN old + ret ELSE old

HonestRead(s, size) == MayCall(s) /\ ReadIssue(s, size) /\ UNCHANGED aux

HonestResolve(req) ==
    LET k == HonestCount(req.offset, req.size, file_size[req.from])
        s == req.from
    IN  /\ Resolve(req, k)
        /\ sum' = [sum EXCEPT ![s] = SumAfterRead(@, ReadReturn(s, k).ret)]
        /\ UNCHANGED <<fsArgs, loc, res, aux2>>

HonestSeek(s, offset, whence) ==
    /\ Seek(s, offset, whence)
    /\ sum' = [sum EXCEPT
                 ![s] = SumAfterSeek(@, whence,
                                     SeekReturn(s, offset, whence).ret)]
    /\ UNCHANGED <<fsArgs, loc, res, aux2>>

InitHonest == Init /\ handler

NextHonest ==
    \/ \E s \in Sessions, size \in 1 .. MaxBufSize : HonestRead(s, size)
    \/ \E req \in readRequests : HonestResolve(req)
    \/ \E s \in Sessions, offset \in Offsets, whence \in Whences :
          HonestSeek(s, offset, whence)

SpecHonest == InitHonest /\ [][NextHonest]_vars

\* ---------------------------------------------------- file-size decoding
Int32 == (-Two31) .. (Two31 - 1)
Int64 == (-Two63) .. Int64Max

\* (int64_t)x << 32 of a non-negative x: the product when int64_t can hold
\* it; otherwise the shift overflows a signed type, which C leaves
\* undefined, and any int64_t may come out
ShiftLeft32(x) == IF x * Half <= Int64Max THEN {x * Half} ELSE Int64

\* mutant: the low half is widened as a signed int
set_file_size_low_signed(size_low, size_high) ==
    {ToInt64(size_low + sh) : sh \in ShiftLeft32(ToUint32(size_high))}

\* the values movi_set_file_size may store for the halves it is passed
movi_set_file_size(size_low, size_high) ==
    LET low == ToUint32(size_low)
        high == ToUint32(size_high)
    IN  {ToInt64(low + sh) : sh \in ShiftLeft32(high)}

movi_thumbnail_create(file_size_low, file_size_high) ==
    {ToInt64(ToUint32(file_size_low) + sh) :
        sh \in ShiftLeft32(ToUint32(file_size_high))}

\* sessions just created: the size is not known yet
InitFileSize ==
    /\ file_size = [s \in Sessions |-> 0]
    /\ position = [s \in Sessions |-> 0]
    /\ avio_pos = [s \in Sessions |-> 0]
    /\ pc = [s \in Sessions |-> "idle"]
    /\ buf_size = [s \in Sessions |-> 0]
    /\ pendingRead = {}
    /\ readRequests = {}
    /\ handler = TRUE
    /\ hl = "none"
    /\ last = NoCall
    /\ AuxInit

\* The host passes the two halves of the size, once, before it opens the
\* session: to movi_set_file_size, or to movi_thumbnail_create.
SetFileSize(s, low, high) ==
    /\ fsArgs = {}
    /\ \E bytes \in (IF s = "movi" THEN movi_set_file_size(low, high)
                                   ELSE movi_thumbnail_create(low, high)) :
          file_size' = [file_size EXCEPT ![s] = bytes]
    /\ fsArgs' = {[s |-> s, low |-> low, high |-> high]}
    /\ UNCHANGED <<position, avio_pos, pc, buf_size, pendingRead,
                   readRequests, handler, hl, last, sum, loc, res, aux2>>

NextFileSize ==
    \E s \in Sessions, low \in Int32, high \in Int32 : SetFileSize(s, low, high)

SpecFileSize == InitFileSize /\ [][NextFileSize]_vars

\* ------------------------------------------ the nearest-keyframe locator
\* js_thumbnail_packet_ready's first argument on the failing paths
SeekFailed == -3
AllocFailed == -4
NotFound == -6

video_stream_index == "video"
Stamps == {AV_NOPTS_VALUE} \cup (0 .. MaxTs)
\* the access units av_read_frame may deliver; size is 0 (empty) or 1
Packets ==
    [stream_index : {"video", "audio"}, key : BOOLEAN, size : 0 .. 1,
     pts : Stamps, dts : Stamps]
\* the negative values av_read_frame may return: end of file, AVERROR(EIO)
ReadFailures == {AVERROR_EOF, -5}
\* targets in seconds, in units of 1/SubTicks of a tick
Targets == 0 .. (MaxTs * SubTicks + SubTicks - 1)
StartTimes == {AV_NOPTS_VALUE, 1}

\* the target in ticks: the product is truncated, then the stream's start
\* time is added when it is known
target_ts(timestamp, start_time) ==
    ToInt64((timestamp \div SubTicks)
            + (IF start_time # AV_NOPTS_VALUE THEN start_time ELSE 0))

\* mutant: the loop runs while max_packets >= 0
scan_one_more(max_packets) == max_packets >= 0
\* while (max_packets-- > 0): the test, made on the value before decrement
scan_continues(max_packets) == max_packets > 0

\* mutant: a packet without the key flag is taken as well
is_video_packet(pkt) ==
    pkt.stream_index = video_stream_index /\ pkt.size > 0
\* mutant: an empty key packet is taken as well
is_key_packet_any_size(pkt) ==
    pkt.stream_index = video_stream_index /\ pkt.key
\* a packet of the video stream with the key flag and a payload
is_key_packet(pkt) ==
    pkt.stream_index = video_stream_index /\ pkt.key /\ pkt.size > 0

\* PTS if available, otherwise DTS
current_pts(pkt) == IF pkt.pts # AV_NOPTS_VALUE THEN pkt.pts ELSE pkt.dts
llabs(x) == IF x < 0 THEN -x ELSE x

\* mutant: at equal distance the later packet wins
is_closer_or_equal(found_keyframe, dist_current, best_keyframe_dist, pts, target) ==
    ~found_keyframe \/ dist_current <= best_keyframe_dist
\* the test that makes the current packet the best one
is_closer(found_keyframe, dist_current, best_keyframe_dist, pts, target) ==
    \/ ~found_keyframe
    \/ dist_current < best_keyframe_dist
    \/ (dist_current = best_keyframe_dist /\ pts < target)

\* mutant: the scan stops at a packet on the target as well
reached_target(pts, target) == pts >= target
\* mutant: the scan stops at the first key packet it takes
stops_at_any_key(pts, target) == TRUE
\* the early stop: the packet lies after the target
passed_target(pts, target) == pts > target

\* the callback argument after the loop: the packet's size, or -6
packet_ready(found_keyframe) == IF found_keyframe THEN 1 ELSE NotFound

\* js_thumbnail_packet_ready(size, pts) followed by the return
notify_success_only(l, size) ==
    [l EXCEPT !.pc = "done", !.result = size,
              !.ready = IF size < 0 THEN @ ELSE @ + 1]
notify(l, size) == [l EXCEPT !.pc = "done", !.result = size, !.ready = @ + 1]

\* the function from the end of its loop to its return
scan_finish(l, why) ==
    notify([l EXCEPT !.ended = why], packet_ready(l.found_keyframe))

\* ctx->pkt when an iteration of the loop, or the call, is over: every
\* iteration ends with av_packet_unref(ctx->pkt), a failed av_read_frame
\* leaves it blank, and the best packet is moved into it when one was found
output_slot(l) ==
    IF l.pc = "done" /\ l.found_keyframe THEN "keyframe" ELSE "blank"

\* one iteration of the loop, av_read_frame having returned ret and, when
\* ret is 0, the packet pkt; the code after the loop is run when the
\* iteration is the last one
read_keyframe_step(l, ret, pkt) ==
    LET target == target_ts(l.timestamp, l.start_time)
        left == l.max_packets - 1
        pts == current_pts(pkt)
        candidate == is_key_packet(pkt) /\ pts # AV_NOPTS_VALUE
        dist_current == llabs(ToInt64(pts - target))
        better == candidate /\ is_closer(l.found_keyframe, dist_current,
                                          l.best_keyframe_dist, pts, target)
        l1 == [l EXCEPT !.max_packets = left,
                        !.found_keyframe = @ \/ better,
                        !.best_keyframe_dist = IF better THEN dist_current ELSE @,
                        !.best = IF better THEN pts ELSE @]
    IN  IF ret < 0
        THEN scan_finish([l EXCEPT !.max_packets = left],
                         IF ret = AVERROR_EOF THEN "eof" ELSE "error")
        ELSE IF candidate /\ passed_target(pts, target)
        THEN scan_finish(l1, "passed")
        ELSE IF scan_continues(left)
        THEN l1
        ELSE scan_finish(l1, "bound")

\* what the claims call the timestamp of a unit, and a unit that counts:
\* on the video stream, key, with a presentation or a decode timestamp
Timestamp(pkt) == IF pkt.pts # AV_NOPTS_VALUE THEN pkt.pts ELSE pkt.dts
KeyWithTimestamp(pkt) ==
    pkt.stream_index = "video" /\ pkt.key /\ Timestamp(pkt) # AV_NOPTS_VALUE
Qualifying(pkt) == KeyWithTimestamp(pkt) /\ pkt.size > 0

\* the observers after one more av_read_frame
Observe(l, ret, pkt) ==
    [l EXCEPT !.reads = @ + 1,
              !.seen = IF ret = 0 /\ Qualifying(pkt)
                       THEN @ \cup {Timestamp(pkt)} ELSE @,
              !.keyTs = @ \/ (ret = 0 /\ KeyWithTimestamp(pkt)),
              !.lastKind = IF ret # 0 THEN "none"
                           ELSE IF Qualifying(pkt) THEN "candidate"
                           ELSE IF KeyWithTimestamp(pkt) THEN "empty"
                           ELSE "other",
              !.lastTs = IF ret = 0 /\ Qualifying(pkt)
                         THEN Timestamp(pkt) ELSE AV_NOPTS_VALUE]

\* the seek requests of one call: avformat_seek_file with
\* AVSEEK_FLAG_BACKWARD and, when it fails, av_seek_frame with the same flag
AVSEEK_FLAG_BACKWARD == 1
seek_requests_fallback_any(seek_file_ok) ==
    IF seek_file_ok
    THEN <<[call |-> "avformat_seek_file", flags |-> AVSEEK_FLAG_BACKWARD]>>
    ELSE <<[call |-> "avformat_seek_file", flags |-> AVSEEK_FLAG_BACKWARD],
           [call |-> "av_seek_frame", flags |-> 0]>>
seek_requests(seek_file_ok) ==
    IF seek_file_ok
    THEN <<[call |-> "avformat_seek_file", flags |-> AVSEEK_FLAG_BACKWARD]>>
    ELSE <<[call |-> "avformat_seek_file", flags |-> AVSEEK_FLAG_BACKWARD],
           [call |-> "av_seek_frame", flags |-> AVSEEK_FLAG_BACKWARD]>>

\* movi_thumbnail_read_keyframe on an opened session with a video stream, up
\* to its first av_read_frame: the target is converted, the buffer is
\* flushed, the engine seeks (seek_file_ok: avformat_seek_file succeeded,
\* seek_frame_ok: the fallback did), the buffer is flushed again and the
\* position taken from avio_tell, best_pkt is allocated and the scan's locals
\* are set.
\* the checks at the entry of the call: 0 when it goes on
NullContext == -1
NoVideoStream == -2
read_keyframe_entry(held, video) ==
    IF held["ctx"] # "live" \/ held["fmt_ctx"] # "live" \/ held["pkt"] # "live"
    THEN NullContext
    ELSE IF ~video THEN NoVideoStream ELSE 0

ReadKeyframeBegin(timestamp, start_time, seek_file_ok, seek_frame_ok, alloc_ok) ==
    /\ loc.pc # "scan"
    /\ AllIdle /\ hl = "none"
    /\ res["thumb"]["ctx"] # "freed"
    /\ LET entry == read_keyframe_entry(res["thumb"], thumb.video)
           seek_ok == seek_file_ok \/ seek_frame_ok
           call0 == [LocIdle EXCEPT !.timestamp = timestamp]
           call1 == [call0 EXCEPT !.start_time = start_time,
                                  !.seeks = seek_requests(seek_file_ok)]
       IN  /\ loc' = IF entry # 0
                     THEN notify(call0, entry)
                     ELSE IF ~seek_ok
                     THEN notify(call1, SeekFailed)
                     ELSE IF ~alloc_ok
                     THEN notify(call1, AllocFailed)
                     ELSE [call1 EXCEPT !.pc = "scan",
                                        !.max_packets = MaxPackets]
           /\ position' = IF entry = 0 /\ seek_ok
                          THEN [position EXCEPT !["thumb"] = avio_tell("thumb")]
                          ELSE position
    /\ thumb' = [thumb EXCEPT !.decode = NoDecode]
    /\ UNCHANGED <<file_size, avio_pos, pc, buf_size, pendingRead,
                   readRequests, handler, hl, last>>
    /\ UNCHANGED <<sum, fsArgs, res, call, sub>>

\* av_read_frame delivers the access unit pkt
ReadFrame(pkt) ==
    /\ loc.pc = "scan"
    /\ loc' = Observe(read_keyframe_step(loc, 0, pkt), 0, pkt)
    /\ thumb' = [thumb EXCEPT !.pkt = output_slot(loc')]
    /\ UNCHANGED <<io, sum, fsArgs, res, call, sub>>

\* av_read_frame fails: the file has ended, or reading it failed
ReadFrameFails(ret) ==
    /\ loc.pc = "scan"
    /\ loc' = Observe(read_keyframe_step(loc, ret, CHOOSE p \in Packets : TRUE),
                      ret, CHOOSE p \in Packets : TRUE)
    /\ thumb' = [thumb EXCEPT !.pkt = output_slot(loc')]
    /\ UNCHANGED <<io, sum, fsArgs, res, call, sub>>

\* the thumbnail session a locator call may be given: no session (NULL),
\* one created and not opened, one opened with or without a video stream
ThumbnailSessions ==
    {[held |-> Nothing, video |-> FALSE],
     [held |-> movi_create(Nothing), video |-> FALSE],
     [held |-> movi_thumbnail_open(movi_create(Nothing)), video |-> FALSE],
     [held |-> movi_thumbnail_open(movi_create(Nothing)), video |-> TRUE]}

InitLocator ==
    /\ file_size = [s \in Sessions |-> MaxFileSize]
    /\ position = [s \in Sessions |-> 0]
    /\ avio_pos = [s \in Sessions |-> 0]
    /\ pc = [s \in Sessions |-> "idle"]
    /\ buf_size = [s \in Sessions |-> 0]
    /\ pendingRead = {}
    /\ readRequests = {}
    /\ handler = TRUE
    /\ hl = "none"
    /\ last = NoCall
    /\ sum = [s \in Sessions |-> -1]
    /\ fsArgs = {}
    /\ loc = LocIdle
    /\ call = NoOp
    /\ sub = NoSub
    /\ \E session \in ThumbnailSessions :
          /\ res = [Opened EXCEPT !["thumb"] = session.held]
          /\ thumb = [ThumbIdle EXCEPT !.video = session.video]

NextLocator ==
    \/ \E timestamp \in Targets, start_time \in StartTimes,
          seek_file_ok \in BOOLEAN, seek_frame_ok \in BOOLEAN,
          alloc_ok \in BOOLEAN :
          ReadKeyframeBegin(timestamp, start_time, seek_file_ok,
                            seek_frame_ok, alloc_ok)
    \/ \E pkt \in Packets : ReadFrame(pkt)
    \/ \E ret \in ReadFailures : ReadFrameFails(ret)

SpecLocator == InitLocator /\ [][NextLocator]_vars

\* ------------------------------------------------- the thumbnail cycle
\* The decoder as the calls see it: avcodec_send_packet(dec, NULL) puts it
\* into draining mode, in which it refuses every packet with AVERROR_EOF
\* until avcodec_flush_buffers is called.
AVERROR_EAGAIN == -11
DecodeError == -22
ReceiveResults == {0, AVERROR_EAGAIN, DecodeError}
DrainResults == {0, AVERROR_EOF}

avcodec_flush_buffers(dec) == "ready"
avcodec_send_packet(dec, accepted) ==
    IF dec = "draining" THEN AVERROR_EOF
    ELSE IF accepted THEN 0 ELSE DecodeError

\* from avcodec_send_packet to the return value: accepted says whether a
\* decoder that takes packets takes this one, first is what the first
\* avcodec_receive_frame returns and second what the one after the drain
\* returns
send_and_receive(t, op, dec, accepted, first, second) ==
    LET send == avcodec_send_packet(dec, accepted)
        drain == send = 0 /\ first = AVERROR_EAGAIN
        ret == IF send < 0 THEN send
               ELSE IF drain THEN second ELSE first
    IN  [t EXCEPT !.dec = IF drain THEN "draining" ELSE dec,
                  !.decode = [op |-> op, ret |-> ret, send |-> send,
                              drained |-> drain,
                              first |-> t.decode.op = "none"]]

\* mutant: the decoder is flushed before the packet is sent
decode_frame_yuv_flushing(t, held, accepted, first, second) ==
    IF held["ctx"] # "live" \/ held["dec_ctx"] # "live"
       \/ held["pkt"] # "live" \/ t.pkt = "blank"
    THEN [t EXCEPT !.decode = [op |-> "yuv", ret |-> -1, send |-> 0,
                               drained |-> FALSE,
                               first |-> t.decode.op = "none"]]
    ELSE send_and_receive(t, "yuv", avcodec_flush_buffers(t.dec), accepted,
                          first, second)

\* movi_thumbnail_decode_frame_yuv: the flush is commented out
movi_thumbnail_decode_frame_yuv(t, held, accepted, first, second) ==
    IF held["ctx"] # "live" \/ held["dec_ctx"] # "live"
       \/ held["pkt"] # "live" \/ t.pkt = "blank"
    THEN [t EXCEPT !.decode = [op |-> "yuv", ret |-> -1, send |-> 0,
                               drained |-> FALSE,
                               first |-> t.decode.op = "none"]]
    ELSE send_and_receive(t, "yuv", t.dec, accepted, first, second)

\* the decoding of movi_thumbnail_decode_frame: the decoder is flushed first,
\* and NULL (here -1) is returned for every failure
decode_frame_rgba(t, held, accepted, first, second) ==
    IF held["ctx"] # "live" \/ held["pkt"] # "live" \/ t.pkt = "blank"
       \/ held["dec_ctx"] # "live"
    THEN [t EXCEPT !.decode = [op |-> "rgba", ret |-> -1, send |-> 0,
                               drained |-> FALSE,
                               first |-> t.decode.op = "none"]]
    ELSE LET d == send_and_receive(t, "rgba", avcodec_flush_buffers(t.dec),
                                   accepted, first, second)
         IN  [d EXCEPT !.decode.ret = IF d.decode.ret < 0 THEN -1 ELSE 0]

DecodeFrameYuv(accepted, first, second) ==
    /\ loc.pc # "scan"
    /\ res["thumb"]["ctx"] # "freed"
    /\ thumb' = movi_thumbnail_decode_frame_yuv(thumb, res["thumb"], accepted,
                                                first, second)
    /\ UNCHANGED <<io, sum, fsArgs, loc, res, call, sub>>

DecodeFrameRgba(accepted, first, second) ==
    /\ loc.pc # "scan"
    /\ res["thumb"]["ctx"] # "freed"
    /\ thumb' = decode_frame_rgba(thumb, res["thumb"], accepted, first, second)
    /\ res' = IF thumb'.decode.send = 0 /\ thumb'.pkt # "blank"
                 /\ res["thumb"]["dec_ctx"] = "live"
              THEN [res EXCEPT !["thumb"] = Acquire(@, {"rgb_buffer"})]
              ELSE res
    /\ UNCHANGED <<io, sum, fsArgs, loc, call, sub>>

NextThumbnail ==
    \/ \E timestamp \in Targets, start_time \in {AV_NOPTS_VALUE},
          seek_file_ok \in BOOLEAN, seek_frame_ok \in BOOLEAN,
          alloc_ok \in BOOLEAN :
          ReadKeyframeBegin(timestamp, start_time, seek_file_ok,
                            seek_frame_ok, alloc_ok)
    \/ \E pkt \in Packets : ReadFrame(pkt)
    \/ \E ret \in ReadFailures : ReadFrameFails(ret)
    \/ \E accepted \in BOOLEAN, first \in ReceiveResults,
          second \in DrainResults : DecodeFrameYuv(accepted, first, second)
    \/ \E accepted \in BOOLEAN, first \in ReceiveResults,
          second \in DrainResults : DecodeFrameRgba(accepted, first, second)

SpecThumbnail == InitLocator /\ [][NextThumbnail]_vars

\* --------------------------------------- the locator on a well-formed stream
\* A stream whose video key units all carry a payload and a timestamp, the
\* timestamps strictly increasing. loc.pre holds the key timestamps before
\* the point the seek landed on, loc.keys those of the whole stream as far
\* as it is known: before the landing point, delivered, or after the point
\* the scan stopped at.
MaxOf(S) == CHOOSE t \in S : \A u \in S : u <= t
NextKey(pkt, keys) ==
    /\ Qualifying(pkt)
    /\ keys # {} => Timestamp(pkt) > MaxOf(keys)
WellFormed(pkt, keys) ==
    (pkt.stream_index = "video" /\ pkt.key) => NextKey(pkt, keys)

StreamBegin(timestamp, start_time, pre) ==
    /\ loc.pc = "idle"
    /\ read_keyframe_entry(res["thumb"], thumb.video) = 0
    /\ AllIdle /\ hl = "none"
    /\ loc' = [LocIdle EXCEPT !.pc = "scan", !.timestamp = timestamp,
                              !.start_time = start_time,
                              !.max_packets = MaxPackets,
                              !.pre = pre, !.keys = pre]
    /\ UNCHANGED <<io, sum, fsArgs, res, aux2>>

StreamReadFrame(pkt) ==
    /\ loc.pc = "scan"
    /\ WellFormed(pkt, loc.keys)
    /\ loc' = [Observe(read_keyframe_step(loc, 0, pkt), 0, pkt) EXCEPT
                  !.keys = IF Qualifying(pkt)
                           THEN @ \cup {Timestamp(pkt)} ELSE @]
    /\ thumb' = [thumb EXCEPT !.pkt = output_slot(loc')]
    /\ UNCHANGED <<io, sum, fsArgs, res, call, sub>>

\* a key unit of the stream that lies after the point the scan stopped at
StreamRest(t) ==
    /\ loc.pc = "done"
    /\ loc.ended \in {"passed", "bound", "error"}
    /\ loc.keys # {} => t > MaxOf(loc.keys)
    /\ loc' = [loc EXCEPT !.keys = @ \cup {t}]
    /\ UNCHANGED <<io, sum, fsArgs, res, aux2>>

NextStream ==
    \/ \E timestamp \in Targets, start_time \in StartTimes,
          pre \in SUBSET (0 .. MaxTs) : StreamBegin(timestamp, start_time, pre)
    \/ \E pkt \in Packets : StreamReadFrame(pkt)
    \/ \E ret \in ReadFailures : ReadFrameFails(ret)
    \/ \E t \in 0 .. MaxTs : StreamRest(t)

SpecStream == InitLocator /\ [][NextStream]_vars

\* ------------------------------------------------ lifecycle of a session
\* a free call guarded by `if (pointer)`: a held resource is released
Release(held, r) == [held EXCEPT ![r] = IF @ = "live" THEN "freed" ELSE @]
ReleaseAll(held, R) ==
    [r \in Resources |-> IF r \in R /\ held[r] = "live" THEN "freed" ELSE held[r]]

\* movi_enable_decoder on a stream without one; movi_receive_frame creating
\* the stream's resampler; movi_decode_subtitle allocating ctx->subtitle
movi_enable_decoder(held) == Acquire(held, {"decoder"})
movi_receive_frame(held) == Acquire(held, {"resampler"})
movi_decode_subtitle(held) == Acquire(held, {"subtitle"})
\* movi_get_frame_rgba: the RGB buffer, the RGB frame and the scaler
movi_get_frame_rgba(held) ==
    Acquire(held, {"rgb_buffer", "rgb_frame", "sws_ctx"})
\* movi_thumbnail_decode_frame: the RGB buffer and the scaler
movi_thumbnail_decode_frame(held) == Acquire(held, {"rgb_buffer", "sws_ctx"})
movi_thumbnail_clear_buffer(held) == Release(held, "rgb_buffer")

\* movi_destroy, statement by statement: the container is closed first,
\* which sets ctx->fmt_ctx to NULL, and the loop over the streams' decoders
\* and resamplers runs only if ctx->fmt_ctx is still set
movi_destroy(held) ==
    LET closed == Release(held, "fmt_ctx")
        io_freed == ReleaseAll(closed, {"avio_buffer", "avio_ctx"})
        pkt_freed == Release(io_freed, "pkt")
        streams == IF pkt_freed["decoders"] = "live"
                      /\ pkt_freed["fmt_ctx"] = "live"
                   THEN ReleaseAll(pkt_freed, {"decoder", "resampler"})
                   ELSE pkt_freed
        arrays == IF streams["decoders"] = "live"
                  THEN ReleaseAll(streams, {"decoders", "resamplers"})
                  ELSE streams
    IN  ReleaseAll(arrays, {"subtitle", "frame", "resampled_frame", "ctx"})

movi_thumbnail_destroy(held) ==
    ReleaseAll(held, {"dec_ctx", "frame", "rgb_frame", "sws_ctx",
                      "rgb_buffer", "pkt", "fmt_ctx", "avio_buffer",
                      "avio_ctx", "ctx"})

\* no session exists yet
InitLifecycle ==
    /\ file_size = [s \in Sessions |-> 0]
    /\ position = [s \in Sessions |-> 0]
    /\ avio_pos = [s \in Sessions |-> 0]
    /\ pc = [s \in Sessions |-> "idle"]
    /\ buf_size = [s \in Sessions |-> 0]
    /\ pendingRead = {}
    /\ readRequests = {}
    /\ handler = TRUE
    /\ hl = "none"
    /\ last = NoCall
    /\ sum = [s \in Sessions |-> -1]
    /\ fsArgs = {}
    /\ loc = LocIdle
    /\ res = [s \in Sessions |-> Nothing]
    /\ thumb = ThumbIdle
    /\ call = NoOp
    /\ sub = NoSub

IsOpen(s) == res[s]["ctx"] = "live" /\ res[s]["fmt_ctx"] = "live"
Hold(s, held) ==
    /\ res' = [res EXCEPT ![s] = held]
    /\ UNCHANGED <<io, sum, fsArgs, loc, aux2>>

Create(s) == res[s]["ctx"] = "none" /\ Hold(s, movi_create(res[s]))
Open(s) ==
    /\ res[s]["ctx"] = "live" /\ res[s]["fmt_ctx"] = "none"
    /\ Hold(s, IF s = "movi" THEN movi_open(res[s])
                             ELSE movi_thumbnail_open(res[s]))
EnableDecoder ==
    /\ IsOpen("movi") /\ res["movi"]["decoder"] = "none"
    /\ Hold("movi", movi_enable_decoder(res["movi"]))
ReceiveFrame ==
    /\ IsOpen("movi") /\ res["movi"]["decoder"] = "live"
    /\ res["movi"]["resampler"] = "none"
    /\ Hold("movi", movi_receive_frame(res["movi"]))
DecodeSubtitle ==
    /\ IsOpen("movi") /\ res["movi"]["decoder"] = "live"
    /\ res["movi"]["subtitle"] = "none"
    /\ Hold("movi", movi_decode_subtitle(res["movi"]))
GetFrameRgba ==
    /\ IsOpen("movi") /\ res["movi"]["decoder"] = "live"
    /\ res["movi"]["rgb_buffer"] = "none"
    /\ Hold("movi", movi_get_frame_rgba(res["movi"]))
ThumbnailDecodeFrame ==
    /\ IsOpen("thumb") /\ res["thumb"]["rgb_buffer"] # "live"
    /\ Hold("thumb", movi_thumbnail_decode_frame(res["thumb"]))
ThumbnailClearBuffer ==
    /\ IsOpen("thumb") /\ res["thumb"]["rgb_buffer"] = "live"
    /\ Hold("thumb", movi_thumbnail_clear_buffer(res["thumb"]))
Destroy(s) ==
    /\ res[s]["ctx"] = "live"
    /\ Hold(s, IF s = "movi" THEN movi_destroy(res[s])
                             ELSE movi_thumbnail_destroy(res[s]))

NextLifecycle ==
    \/ \E s \in Sessions : Create(s)
    \/ \E s \in Sessions : Open(s)
    \/ EnableDecoder
    \/ ReceiveFrame
    \/ DecodeSubtitle
    \/ GetFrameRgba
    \/ ThumbnailDecodeFrame
    \/ ThumbnailClearBuffer
    \/ \E s \in Sessions : Destroy(s)

SpecLifecycle == InitLifecycle /\ [][NextLifecycle]_vars

\* --------------------------------------- operations on an unopened session
\* movi_open failing: with code -2 nothing was allocated, with -3 the I/O
\* buffer was freed and its pointer kept, with -4 the buffer and the I/O
\* context were freed and the context's pointer cleared, and when
\* avformat_open_input fails (here with AVERROR(EIO), -5) the engine frees
\* the container context and clears ctx->fmt_ctx, the I/O context and its
\* buffer staying.
OpenFailures == {-2, -3, -4, -5}
movi_open_fails(held, code) ==
    CASE code = -2 -> held
      [] code = -3 -> [held EXCEPT !["avio_buffer"] = "freed"]
      [] code = -4 -> [held EXCEPT !["avio_buffer"] = "freed"]
      [] OTHER -> Acquire(held, {"avio_buffer", "avio_ctx"})

\* the resources among R that the session does not hold: a pointer that is
\* NULL or dangling when the operation follows it
Absent(held, R) == {r \in R : held[r] # "live"}
Done(op, held, ret, deref, asked) ==
    [op |-> op, opened |-> held["ctx"] = "live" /\ held["fmt_ctx"] = "live",
     ret |-> ret, deref |-> deref, asked |-> asked]

\* movi_read_frame and movi_seek_to test ctx and ctx->fmt_ctx first; past
\* the test the engine reads and seeks through the callbacks
movi_read_frame(held) ==
    IF held["ctx"] # "live" \/ held["fmt_ctx"] # "live" \/ held["pkt"] # "live"
    THEN Done("movi_read_frame", held, -1, {}, FALSE)
    ELSE Done("movi_read_frame", held, 0, {}, TRUE)
movi_seek_to(held) ==
    IF held["ctx"] # "live" \/ held["fmt_ctx"] # "live"
    THEN Done("movi_seek_to", held, -1, {}, FALSE)
    ELSE Done("movi_seek_to", held, 0, {}, TRUE)
\* movi_enable_decoder tests ctx->fmt_ctx before it reads nb_streams
enable_decoder_entry(held, stream_index, nb_streams) ==
    IF held["ctx"] # "live" \/ held["fmt_ctx"] # "live" \/ stream_index < 0
       \/ stream_index >= nb_streams
    THEN Done("movi_enable_decoder", held, -1, {}, FALSE)
    ELSE Done("movi_enable_decoder", held, 0, {}, FALSE)
\* movi_send_packet tests ctx->decoders, which only movi_open sets
movi_send_packet(held) ==
    IF held["ctx"] # "live" \/ held["decoders"] # "live"
       \/ held["decoder"] # "live"
    THEN Done("movi_send_packet", held, -1, {}, FALSE)
    ELSE Done("movi_send_packet", held, 0, {}, FALSE)

\* mutant: movi_set_skip_frame with the test of ctx->fmt_ctx the other
\* operations have
set_skip_frame_checked(held, stream_index, nb_streams) ==
    IF held["ctx"] # "live" \/ held["fmt_ctx"] # "live" \/ stream_index < 0
       \/ stream_index >= nb_streams
    THEN Done("movi_set_skip_frame", held, 0, {}, FALSE)
    ELSE Done("movi_set_skip_frame", held, 0,
              Absent(held, {"decoders"}), FALSE)

\* movi_set_skip_frame reads ctx->fmt_ctx->nb_streams after testing ctx and
\* stream_index only; nb_streams is what that read yields, and past the
\* range test ctx->decoders[stream_index] is read
movi_set_skip_frame(held, stream_index, nb_streams) ==
    IF held["ctx"] # "live" \/ stream_index < 0
    THEN Done("movi_set_skip_frame", held, 0, {}, FALSE)
    ELSE IF stream_index >= nb_streams
    THEN Done("movi_set_skip_frame", held, 0,
              Absent(held, {"fmt_ctx"}), FALSE)
    ELSE Done("movi_set_skip_frame", held, 0,
              Absent(held, {"fmt_ctx", "decoders"}), FALSE)
\* movi_receive_frame tests ctx->frame, which only movi_open sets, and then
\* reads ctx->fmt_ctx->nb_streams
receive_frame_entry(held, stream_index, nb_streams) ==
    IF held["ctx"] # "live" \/ held["frame"] # "live"
    THEN Done("movi_receive_frame", held, -1, {}, FALSE)
    ELSE IF stream_index < 0 \/ stream_index >= nb_streams
    THEN Done("movi_receive_frame", held, -1,
              Absent(held, {"fmt_ctx"}), FALSE)
    ELSE Done("movi_receive_frame", held,
              IF held["decoder"] = "live" THEN 0 ELSE -1,
              Absent(held, {"fmt_ctx", "decoders"}), FALSE)
\* movi_decode_subtitle tests ctx and stream_index only, as
\* movi_set_skip_frame does
decode_subtitle_entry(held, stream_index, nb_streams) ==
    IF held["ctx"] # "live" \/ stream_index < 0
    THEN Done("movi_decode_subtitle", held, -1, {}, FALSE)
    ELSE IF stream_index >= nb_streams
    THEN Done("movi_decode_subtitle", held, -1,
              Absent(held, {"fmt_ctx"}), FALSE)
    ELSE Done("movi_decode_subtitle", held,
              IF held["decoder"] = "live" THEN 0 ELSE -1,
              Absent(held, {"fmt_ctx", "decoders"}), FALSE)

\* the stream indexes the host passes, and what a read of nb_streams may
\* yield: the stream count of an opened container (1 here), or whatever the
\* memory behind a NULL ctx->fmt_ctx holds
StreamIndexes == {-1, 0, 1}
NbStreams(held) == IF held["fmt_ctx"] = "live" THEN {1} ELSE {0, 1}

OpenFails(code) ==
    /\ res["movi"]["ctx"] = "live" /\ res["movi"]["fmt_ctx"] = "none"
    /\ res["movi"]["avio_buffer"] = "none"
    /\ Hold("movi", movi_open_fails(res["movi"], code))

Called(c) ==
    /\ res["movi"]["ctx"] # "freed"
    /\ call' = c
    /\ UNCHANGED <<io, sum, fsArgs, loc, res, thumb, sub>>

CallReadFrame == Called(movi_read_frame(res["movi"]))
CallSeekTo == Called(movi_seek_to(res["movi"]))
CallSendPacket == Called(movi_send_packet(res["movi"]))
CallEnableDecoder(stream_index, nb_streams) ==
    /\ nb_streams \in NbStreams(res["movi"])
    /\ Called(enable_decoder_entry(res["movi"], stream_index, nb_streams))
CallSetSkipFrame(stream_index, nb_streams) ==
    /\ nb_streams \in NbStreams(res["movi"])
    /\ Called(movi_set_skip_frame(res["movi"], stream_index, nb_streams))
CallReceiveFrame(stream_index, nb_streams) ==
    /\ nb_streams \in NbStreams(res["movi"])
    /\ Called(receive_frame_entry(res["movi"], stream_index, nb_streams))
CallDecodeSubtitle(stream_index, nb_streams) ==
    /\ nb_streams \in NbStreams(res["movi"])
    /\ Called(decode_subtitle_entry(res["movi"], stream_index, nb_streams))

NextUnopened ==
    \/ \E s \in Sessions : Create(s)
    \/ \E s \in Sessions : Open(s)
    \/ \E code \in OpenFailures : OpenFails(code)
    \/ EnableDecoder
    \/ CallReadFrame
    \/ CallSeekTo
    \/ CallSendPacket
    \/ \E stream_index \in StreamIndexes, nb_streams \in 0 .. 1 :
          CallEnableDecoder(stream_index, nb_streams)
    \/ \E stream_index \in StreamIndexes, nb_streams \in 0 .. 1 :
          CallSetSkipFrame(stream_index, nb_streams)
    \/ \E stream_index \in StreamIndexes, nb_streams \in 0 .. 1 :
          CallReceiveFrame(stream_index, nb_streams)
    \/ \E stream_index \in StreamIndexes, nb_streams \in 0 .. 1 :
          CallDecodeSubtitle(stream_index, nb_streams)

SpecUnopened == InitLifecycle /\ [][NextUnopened]_vars

\* ------------------------------------------------------- subtitle text
\* movi_get_subtitle_text on a decoded subtitle. A rect is plain text, an
\* ASS event or a bitmap; its text is what the function finds at rect->text
\* or, for an ASS event, at text_start, after the fields before the text
\* have been skipped. The characters are "a", a space, and in ASS text the
\* override tag {\i1} ("I") and the line break \N ("N").
MaxText == 2
MaxRects == 2
MaxSubBuf == 5
NUL == "0"
TextChars == {"a", " "}
AssChars == {"a", " ", "I", "N"}
StringsOf(chars) ==
    UNION {[1 .. n -> chars] : n \in 0 .. MaxText}
Rects ==
    [type : {"text"}, text : StringsOf(TextChars)]
        \cup [type : {"ass"}, text : StringsOf(AssChars)]
        \cup [type : {"bitmap"}, text : {<<>>}]
RectLists == UNION {[1 .. n -> Rects] : n \in 0 .. MaxRects}

\* the buffer and what the observers know of it: buffer[i + 1] is the
\* caller's buffer[i], with one element past the end so that a write there
\* shows; text holds the indexes of the characters extracted so far and
\* not dropped as whitespace
Untouched == "?"
FreshText ==
    [NoText EXCEPT !.called = TRUE,
                   !.buffer = [i \in 1 .. (MaxSubBuf + 2) |-> Untouched]]
\* buffer[i] = c, c being a character of a rect's text or not
Store(o, i, c, extracted) ==
    [o EXCEPT !.buffer = [j \in DOMAIN @ |-> IF j = i + 1 THEN c ELSE @[j]],
              !.writes = @ \cup {i},
              !.over = @ \/ (~extracted /\ i \in o.text),
              !.text = IF extracted THEN @ \cup {i} ELSE @]

\* strncpy(buffer + at, text, n): the characters of text, at most n of
\* them, and NUL for the rest of the n bytes
RECURSIVE strncpy(_, _, _, _, _)
strncpy(o, at, text, n, k) ==
    IF k >= n THEN o
    ELSE strncpy(IF k < Len(text) THEN Store(o, at + k, text[k + 1], TRUE)
                                  ELSE Store(o, at + k, NUL, FALSE),
                 at, text, n, k + 1)

\* a SUBTITLE_TEXT rect
text_rect(o, text, buffer_size) ==
    LET len == Len(text)
    IN  IF o.total_len + len + 1 < buffer_size
        THEN LET sep == IF o.total_len > 0
                        THEN [Store(o, o.total_len, "\n", FALSE)
                                 EXCEPT !.total_len = @ + 1]
                        ELSE o
                 copied == strncpy(sep, sep.total_len, text,
                                   buffer_size - sep.total_len - 1, 0)
             IN  [copied EXCEPT !.total_len = @ + len]
        ELSE o

\* the loop over the characters of an ASS event's text: r.o is the buffer,
\* r.len the local len
RECURSIVE ass_clean(_, _, _, _)
ass_clean(r, text, k, buffer_size) ==
    LET limit == buffer_size - r.o.total_len - 1
        at == r.o.total_len + r.len
        c == text[k]
    IN  IF k > Len(text) \/ ~(r.len < limit) THEN r
        ELSE ass_clean(
                 CASE c = "I" ->
                        IF r.len + 3 < limit
                        THEN [o |-> Store(Store(Store(r.o, at, "<", TRUE),
                                                at + 1, "i", TRUE),
                                          at + 2, ">", TRUE),
                              len |-> r.len + 3]
                        ELSE r
                   [] c = "N" ->
                        IF r.o.total_len > 0 \/ r.len > 0
                        THEN [o |-> Store(r.o, at, "\n", TRUE),
                              len |-> r.len + 1]
                        ELSE r
                   [] OTHER ->
                        [o |-> Store(r.o, at, c, TRUE), len |-> r.len + 1],
                 text, k + 1, buffer_size)

\* a SUBTITLE_ASS rect: the text is written at total_len, and the separator
\* is stored at total_len afterwards
ass_rect(o, text, buffer_size) ==
    LET r == ass_clean([o |-> o, len |-> 0], text, 1, buffer_size)
        has_content ==
            \E j \in 0 .. (r.len - 1) :
                r.o.buffer[r.o.total_len + j + 1] \notin {" ", "\n"}
    IN  IF r.len > 0 /\ has_content
        THEN LET sep == IF r.o.total_len > 0
                        THEN [Store(r.o, r.o.total_len, "\n", FALSE)
                                 EXCEPT !.total_len = @ + 1]
                        ELSE r.o
             IN  [sep EXCEPT !.total_len = @ + r.len]
        ELSE [r.o EXCEPT !.text = o.text]

RECURSIVE subtitle_rects(_, _, _, _)
subtitle_rects(o, rects, i, buffer_size) ==
    IF i > Len(rects) \/ ~(o.total_len < buffer_size - 1) THEN o
    ELSE subtitle_rects(
             CASE rects[i].type = "text" ->
                    text_rect(o, rects[i].text, buffer_size)
               [] rects[i].type = "ass" ->
                    ass_rect(o, rects[i].text, buffer_size)
               [] OTHER -> o,
             rects, i + 1, buffer_size)

movi_get_subtitle_text(rects, buffer_size) ==
    IF buffer_size <= 0
    THEN [NoText EXCEPT !.called = TRUE, !.ret = -1]
    ELSE IF Len(rects) = 0
    THEN [NoText EXCEPT !.called = TRUE]
    ELSE LET o == subtitle_rects(FreshText, rects, 1, buffer_size)
         IN  [Store(o, o.total_len, NUL, FALSE) EXCEPT !.ret = o.total_len]

InitSubtitle ==
    /\ file_size = [s \in Sessions |-> 0]
    /\ position = [s \in Sessions |-> 0]
    /\ avio_pos = [s \in Sessions |-> 0]
    /\ pc = [s \in Sessions |-> "idle"]
    /\ buf_size = [s \in Sessions |-> 0]
    /\ pendingRead = {}
    /\ readRequests = {}
    /\ handler = TRUE
    /\ hl = "none"
    /\ last = NoCall
    /\ sum = [s \in Sessions |-> -1]
    /\ fsArgs = {}
    /\ loc = LocIdle
    /\ res = [Opened EXCEPT !["movi"] =
                  movi_decode_subtitle(movi_enable_decoder(@))]
    /\ thumb = ThumbIdle
    /\ call = NoOp
    /\ \E rects \in RectLists, buffer_size \in 0 .. MaxSubBuf :
          sub = [rects |-> rects, buffer_size |-> buffer_size, out |-> NoText]

GetSubtitleText ==
    /\ ~sub.out.called
    /\ sub' = [sub EXCEPT !.out = movi_get_subtitle_text(sub.rects,
                                                         sub.buffer_size)]
    /\ UNCHANGED <<io, sum, fsArgs, loc, res, thumb, call>>

NextSubtitle == GetSubtitleText

SpecSubtitle == InitSubtitle /\ [][NextSubtitle]_vars

\* ================================================================= claims
SeekWhences == {SEEK_SET, SEEK_CUR, SEEK_END}
LastTarget == ExactTarget(last.pos0, last.fs0, last.arg, last.whence)
LastSeek == last.op = "seek" /\ last.whence \in SeekWhences

\* C1: the offset handed to the provider by a read equals the non-negative
\* 64-bit position that the read callback split into two signed 32-bit ints,
\* for every such position.
C1_CodecRoundTrip == \A r \in readRequests : r.offset = r.v

\* a request at a position whose low half has its top bit set and whose
\* high half is not zero
C1_Witness ==
    \E r \in readRequests :
        /\ r.v % Half >= Two31
        /\ r.v \div Half > 0
        /\ r.offset = r.v

\* C2: a read answered with k > 0 bytes returns k and advances position by
\* exactly k, and a read request is issued at the session's position, so the
\* request that follows such a read is issued at old position + k.
C2_ReadAdvancesByCount ==
    /\ last.op = "read" =>
          \A k \in last.resp :
              k > 0 => /\ position[last.s] = last.pos0 + k
                       /\ last.ret = k
    /\ \A r \in readRequests :
          /\ r.offset = position[r.from]
          /\ \A a \in r.after : a.end = r.offset

\* a request issued right after a short read, at the offset the read ended at
C2_Witness ==
    \E r \in readRequests :
        \E a \in r.after : a.short /\ a.end = r.offset /\ r.offset > 1

\* C3: a seek whose target is below 0 or above file_size fails and leaves
\* position unchanged, for the three whence values; a seek to exactly
\* file_size succeeds.
C3_SeekOutOfRangeRejected ==
    LastSeek =>
        /\ (LastTarget < 0 \/ LastTarget > last.fs0) =>
              /\ last.ret < 0
              /\ position[last.s] = last.pos0
        /\ LastTarget = last.fs0 =>
              /\ last.ret = last.fs0
              /\ position[last.s] = last.fs0

\* a seek to file_size + 1 from a position inside the file has failed
C3_Witness ==
    /\ LastSeek
    /\ LastTarget = last.fs0 + 1
    /\ last.pos0 > 0
    /\ last.ret < 0
    /\ position[last.s] = last.pos0

\* C4: the cursor of every session stays inside [0, file_size].
C4_PositionInRange ==
    \A s \in Sessions : 0 <= position[s] /\ position[s] <= file_size[s]

\* C5: an accepted seek returns and stores offset (absolute), position +
\* offset (relative to current) or file_size + offset (relative to end).
C5_WhenceSemantics ==
    (LastSeek /\ last.ret >= 0) =>
        /\ last.ret = LastTarget
        /\ position[last.s] = LastTarget

\* an accepted seek backwards relative to the current position
C5_Witness ==
    /\ LastSeek
    /\ last.whence = SEEK_CUR
    /\ last.arg < 0
    /\ last.ret = last.pos0 + last.arg
    /\ position[last.s] = last.ret

\* C6: a size query returns file_size and leaves position and file_size as
\* they were, whatever the offset and the position.
C6_SizeQueryIsPure ==
    (last.op = "seek" /\ last.whence = AVSEEK_SIZE) =>
        /\ last.ret = last.fs0
        /\ position[last.s] = last.pos0
        /\ file_size[last.s] = last.fs0

\* a size query made inside the file with a non-zero offset argument
C6_Witness ==
    /\ last.op = "seek"
    /\ last.whence = AVSEEK_SIZE
    /\ last.arg # 0
    /\ last.pos0 > 0
    /\ last.pos0 < last.fs0
    /\ last.ret = last.fs0

\* C7: a read the provider answers with 0 returns the end-of-stream value,
\* which is neither a byte count nor the failure value -1, and leaves
\* position unchanged.
C7_ZeroIsEndOfStream ==
    (last.op = "read" /\ 0 \in last.resp) =>
        /\ last.ret = AVERROR_EOF
        /\ last.ret \notin 0 .. last.arg
        /\ last.ret # -1
        /\ position[last.s] = last.pos0

\* a read answered with 0 after the cursor has moved
C7_Witness ==
    /\ last.op = "read"
    /\ last.resp = {0}
    /\ last.pos0 > 0
    /\ last.ret = AVERROR_EOF

\* C8: a read the provider answers with a negative value returns that value,
\* leaves position unchanged, and has sent one request to the provider and
\* no other.
C8_ReadFailurePropagated ==
    last.op = "read" =>
        \A k \in last.resp :
            k < 0 => /\ last.ret = k
                     /\ position[last.s] = last.pos0
                     /\ last.nreq = 1
                     /\ \A r \in readRequests : r.from # last.s

\* a read answered with the failure value -2
C8_Witness ==
    /\ last.op = "read"
    /\ last.resp = {-2}
    /\ last.ret = -2
    /\ last.pos0 > 0

\* C9 as stated: with no provider registered, a read and a seek each return a
\* negative value at once and leave position unchanged.
C9_NoProviderFailsBoth ==
    (~handler /\ last.op \in {"read", "seek"}) =>
        /\ last.ret < 0
        /\ ~last.waited
        /\ position[last.s] = last.pos0

\* C9 amended: with no provider registered a read returns -1 at once, with no
\* request sent and position unchanged, and no read is ever left suspended
\* without a request in the provider's hands; a seek returns at once too, but
\* its result does not depend on the provider: it fails exactly when the
\* whence is unknown or the target is outside [0, file_size].
C9_NoProviderReadFails ==
    /\ \A s \in Sessions :
          pc[s] = "read" => handler /\ \E r \in readRequests : r.from = s
    /\ (~handler /\ last.op = "read") =>
          /\ last.ret = -1
          /\ ~last.waited
          /\ last.nreq = 0
          /\ position[last.s] = last.pos0
    /\ (~handler /\ last.op = "seek") =>
          /\ ~last.waited
          /\ last.nreq = 0
          /\ last.ret < 0 <=>
                \/ last.whence \notin SeekWhences \cup {AVSEEK_SIZE}
                \/ /\ last.whence \in SeekWhences
                   /\ (LastTarget < 0 \/ LastTarget > last.fs0)
          /\ last.ret < 0 => position[last.s] = last.pos0

\* a read made with no provider registered has returned -1 at once
C9_Witness ==
    /\ ~handler
    /\ last.op = "read"
    /\ last.ret = -1
    /\ ~last.waited
    /\ last.pos0 > 0

\* C10 as stated: after a successful seek, position is the absolute position
\* carried by the provider's response to the seek request.
C10_PositionFromProvider ==
    (handler /\ LastSeek /\ last.ret >= 0) =>
        /\ last.nreq > 0
        /\ last.resp = {position[last.s]}

\* C10 amended: after a successful seek of the seek callback, position is the
\* locally computed target; the callback sends no request to the provider
\* and no provider response takes part in it.
C10_PositionFromLocalTarget ==
    (LastSeek /\ last.ret >= 0) =>
        /\ position[last.s] = LastTarget
        /\ last.nreq = 0
        /\ last.resp = {}
        /\ readRequests = {}

\* a successful seek, made with a provider registered, that moved the cursor
C10_Witness ==
    /\ handler
    /\ LastSeek
    /\ last.ret >= 0
    /\ position[last.s] # last.pos0
    /\ position[last.s] = LastTarget

\* C11: with two sessions alive at once every suspended read keeps a
\* pending-request slot of its own: whenever a session is suspended in a
\* read, the stored pending request is its own and is still unresolved, so
\* no other session's request has overwritten it and no response meant for
\* another request has used it up.
C11_OwnPendingSlot ==
    \A s \in Sessions :
        pc[s] = "read" =>
            \E slot \in pendingRead : slot.owner = s /\ ~slot.settled

\* C12: every read that suspends is resumed, once, with the value the
\* provider resolved for its own request: a session is suspended in a read
\* only while the request it issued is still waiting for the provider's
\* answer.
C12_SuspendedReadAwaitsOwnRequest ==
    \A s \in Sessions :
        pc[s] = "read" => \E r \in readRequests : r.from = s

\* C13: with the honest provider, once the counts returned by the reads
\* since a seek to 0 add up to file_size, position equals file_size, and a
\* read issued from there reports end-of-stream.
C13_ReadToEnd ==
    \A s \in Sessions :
        /\ sum[s] = file_size[s] => position[s] = file_size[s]
        /\ (last.op = "read" /\ last.s = s /\ sum[s] >= 0
              /\ sum[s] - (IF last.ret > 0 THEN last.ret ELSE 0) = file_size[s])
               => last.ret = AVERROR_EOF

\* a file of more than one buffer was read to its end in several reads and
\* the read after that returned end-of-stream
C13_Witness ==
    \E s \in Sessions :
        /\ file_size[s] > MaxBufSize
        /\ sum[s] = file_size[s]
        /\ last.op = "read" /\ last.s = s /\ last.waited
        /\ last.ret = AVERROR_EOF

\* C14 as stated: for every pair of signed 32-bit halves (low, high) the
\* stored file_size is unsigned(low) + unsigned(high) * 2^32.
C14_FileSizeEveryPair ==
    \A a \in fsArgs :
        file_size[a.s] = Unsigned(a.low) + Unsigned(a.high) * Half

\* C14, amended: for every pair of signed 32-bit halves whose high half is
\* not negative (every size below 2^63) the stored file_size is
\* unsigned(low) + high * 2^32, and a low half with its top bit set is
\* never sign-extended.
C14_FileSizeBelowTwo63 ==
    \A a \in fsArgs :
        a.high >= 0 =>
            /\ file_size[a.s] = Unsigned(a.low) + a.high * Half
            /\ file_size[a.s] >= 0

\* low = -1 was passed with a positive high half and came out as 2^32 - 1
\* above high * 2^32
C14_Witness ==
    \E a \in fsArgs :
        /\ a.low = -1 /\ a.high > 0
        /\ file_size[a.s] = a.high * Half + (Half - 1)

\* the target of the running (or finished) locator call, in ticks, and the
\* distance of a timestamp from it
LocTarget == target_ts(loc.timestamp, loc.start_time)
Distance(t) == IF t >= LocTarget THEN t - LocTarget ELSE LocTarget - t
Scanned == loc.ended # "none"
\* the nearest of the timestamps in set S, the earlier one at a tie
Nearest(S) ==
    CHOOSE t \in S : \A u \in S :
        Distance(t) < Distance(u) \/ (Distance(t) = Distance(u) /\ t <= u)

\* C16: a locator call reads at most max_units access units after its seek
\* and terminates: while it scans, the units read and the units it may still
\* read add up to the bound and at least one is left, so every read brings
\* the end nearer, whatever the stream delivers.
C16_ScanBounded ==
    /\ loc.reads <= MaxPackets
    /\ loc.pc = "scan" =>
          (loc.max_packets > 0 /\ loc.reads + loc.max_packets = MaxPackets)
    /\ loc.pc = "done" => loc.result # 0

\* the bound was used up on a stream without any key unit with a timestamp
C16_Witness ==
    /\ loc.pc = "done" /\ loc.ended = "bound"
    /\ loc.reads = MaxPackets
    /\ ~loc.keyTs

\* C17 as stated: after a scan the locator reports "not found" exactly when
\* no video key unit with a valid timestamp was among the units read;
\* otherwise it returns the best candidate; it reads at most the bound.
C17_NotFoundIffNoKeyWithTimestamp ==
    Scanned /\ loc.pc = "done" =>
        /\ (loc.result = NotFound) <=> ~loc.keyTs
        /\ loc.reads <= MaxPackets

\* C17, amended: after a scan the locator reports "not found" exactly when
\* no non-empty video key unit with a valid timestamp was among the units
\* read before the scan ended; otherwise it reports success with the
\* nearest of those units; it reads at most the bound.
C17_NotFoundIffNoCandidate ==
    Scanned /\ loc.pc = "done" =>
        /\ (loc.result = NotFound) <=> (loc.seen = {})
        /\ loc.seen # {} => (loc.result > 0 /\ loc.best = Nearest(loc.seen))
        /\ loc.reads <= MaxPackets

\* the bound was used up, the last unit read being the only candidate
C17_Witness ==
    /\ loc.pc = "done" /\ loc.ended = "bound"
    /\ loc.reads = MaxPackets
    /\ Cardinality(loc.seen) = 1
    /\ loc.result > 0

\* C18: a scan that a failed read of an access unit ended does not report
\* the "not found" outcome that an exhausted scan reports.
C18_ReadErrorNotReportedAsNotFound ==
    loc.pc = "done" /\ loc.ended = "error" => loc.result # NotFound

\* C20: at every point of the scan the tracked best candidate is a
\* qualifying key unit read so far, at the least distance from the target
\* among all of them and the earliest at that distance, and the tracked
\* distance is its distance.
C20_BestIsNearestSoFar ==
    loc.pc \in {"scan", "done"} =>
        IF loc.seen = {}
        THEN ~loc.found_keyframe
        ELSE /\ loc.found_keyframe
             /\ loc.best \in loc.seen
             /\ \A t \in loc.seen :
                   /\ Distance(loc.best) <= Distance(t)
                   /\ Distance(t) = Distance(loc.best) => loc.best <= t
             /\ loc.best_keyframe_dist = Distance(loc.best)

\* two candidates at the same distance were read, one on each side of the
\* target
C20_Witness ==
    /\ loc.pc \in {"scan", "done"}
    /\ \E t \in loc.seen : t # loc.best /\ Distance(t) = Distance(loc.best)

\* the seek landed at or before the last key unit at-or-before the target
\* (before every key unit, when none is at-or-before the target)
KeysUpToTarget == {k \in loc.keys : k <= LocTarget}
LandedAtOrBefore ==
    IF KeysUpToTarget = {}
    THEN loc.pre = {}
    ELSE MaxOf(KeysUpToTarget) \notin loc.pre
NearestOfStream ==
    /\ loc.result > 0
    /\ loc.best \in loc.keys
    /\ \A k \in loc.keys : Distance(loc.best) <= Distance(k)

\* C15 as stated: on a stream whose key units have strictly increasing
\* timestamps, when the seek landed at or before the last key unit
\* at-or-before the target, the locator returns a key unit at the least
\* distance from the target over all key units of the stream (no read of
\* the scan having failed).
C15_NearestOfStream ==
    (loc.pc = "done" /\ loc.ended \in {"passed", "eof", "bound"}
       /\ loc.keys # {} /\ LandedAtOrBefore)
        => NearestOfStream

\* C15, amended: the same, for a scan that is not cut short: it ends by
\* reading a key unit after the target or by the end of the stream, not by
\* the bound or a failed read; the distance is in ticks from the target
\* truncated to a tick.
C15_NearestWhenScanComplete ==
    (loc.pc = "done" /\ loc.ended \in {"passed", "eof"}
       /\ loc.keys # {} /\ LandedAtOrBefore)
        => NearestOfStream

\* with key units before the landing point, a key unit before and one
\* after the target were read and the later one, the nearer, was returned
C15_Witness ==
    /\ loc.pc = "done" /\ loc.ended = "passed" /\ LandedAtOrBefore
    /\ loc.pre # {}
    /\ \E k \in loc.seen : k < LocTarget
    /\ loc.result > 0 /\ loc.best > LocTarget

\* C19: after movi_destroy or movi_thumbnail_destroy of an opened session
\* nothing the session acquired is still held: the I/O buffer and context,
\* the container, the packet and frames, the decoders and resamplers, the
\* scaler, the RGB frame and the RGB buffer have all been released.
C19_AllReleased ==
    \A s \in Sessions :
        res[s]["ctx"] = "freed" =>
            \A r \in Resources : res[s][r] # "live"

C22_OtherUnitsOnlyCount ==
    [][(loc.pc = "scan" /\ loc'.reads = loc.reads + 1
          /\ loc'.lastKind = "other")
        => /\ loc'.found_keyframe = loc.found_keyframe
           /\ loc'.best = loc.best
           /\ loc'.best_keyframe_dist = loc.best_keyframe_dist
           /\ loc'.max_packets = loc.max_packets - 1
           /\ loc'.ended \in {"none", "bound"}
           /\ (loc'.ended = "bound" <=> loc'.max_packets = 0)]_vars

\* with a candidate held, a unit of another kind was read and the scan
\* goes on
C22_Witness ==
    /\ loc.pc = "scan" /\ loc.found_keyframe
    /\ loc.lastKind = "other"

\* a locator call has passed its entry checks (it was not turned away with
\* -1 or -2 before the seek)
CallSeeks == loc.pc # "idle" /\ loc.result \notin {NullContext, NoVideoStream}

\* C23 as stated: a locator call performs exactly one seek request, with
\* seek-backward bias, and never a second one during the call.
C23_ExactlyOneSeek ==
    CallSeeks =>
        /\ Len(loc.seeks) = 1
        /\ loc.seeks[1].flags = AVSEEK_FLAG_BACKWARD

\* C23 amended: a locator call that passes its entry checks performs one
\* seek request with seek-backward bias and, only when that request failed,
\* a second one with the same bias; every seek request is made before the
\* first read, none while the scan runs or after it, and a call that reads
\* made at most two.
C23_OneSeekAndItsFallback ==
    /\ [](CallSeeks =>
            /\ Len(loc.seeks) \in {1, 2}
            /\ \A i \in 1 .. Len(loc.seeks) :
                  loc.seeks[i].flags = AVSEEK_FLAG_BACKWARD
            /\ loc.seeks[1].call = "avformat_seek_file"
            /\ Len(loc.seeks) = 2 => loc.seeks[2].call = "av_seek_frame"
            /\ loc.result = SeekFailed => Len(loc.seeks) = 2)
    /\ [][loc.pc = "scan" => loc'.seeks = loc.seeks]_vars
C23_Witness ==
    loc.pc = "done" /\ loc.reads > 1 /\ Len(loc.seeks) = 2

\* C24: after every successful movi_seek_to the buffer has been flushed and
\* the position is the one the engine reports (avio_tell), and the next read
\* request of the session is issued at the byte offset the engine's seek
\* selected: no byte is skipped or replayed.
C24_NextReadWhereSeekSelected ==
    /\ []((last.op = "seek_to" /\ last.ret >= 0) =>
              position["movi"] = avio_tell("movi"))
    /\ [][(last.op = "seek_to" /\ last.ret >= 0) =>
              \A req \in readRequests' \ readRequests :
                  req.from = "movi" => req.offset = last.arg]_vars

C27_CallbackExactlyOnce ==
    /\ [](/\ loc.pc = "done" => loc.ready = 1
          /\ loc.pc \in {"idle", "scan"} => loc.ready = 0)
    /\ [][(loc.pc = "done" /\ loc' # loc) =>
              /\ loc'.reads = 0
              /\ loc'.pc \in {"scan", "done"}
              /\ Len(loc'.seeks) <= 2]_vars
\* a second call on a session that holds a keyframe has failed in its seek
C27_Witness ==
    /\ loc.pc = "done" /\ loc.result = SeekFailed /\ loc.ready = 1
    /\ thumb.pkt = "keyframe"

\* C28: after movi_thumbnail_read_keyframe has reported a failure code the
\* output packet slot is empty, and a decode call that follows fails.
C28_FailureLeavesSlotEmpty ==
    (loc.pc = "done" /\ loc.result < 0) =>
        /\ thumb.pkt = "blank"
        /\ thumb.decode.op # "none" => thumb.decode.ret < 0

\* C29: thumbnail cycles are independent: the first
\* movi_thumbnail_decode_frame_yuv after a successful
\* movi_thumbnail_read_keyframe is not refused because an earlier cycle
\* drained the decoder, that is, avcodec_send_packet does not answer it with
\* AVERROR_EOF.
C29_EarlierDrainDoesNotBlock ==
    (loc.pc = "done" /\ loc.result > 0
     /\ thumb.decode.op = "yuv" /\ thumb.decode.first) =>
        thumb.decode.send # AVERROR_EOF

\* C26: an exported operation called on a session that is not open (never
\* opened, or whose open failed) returns an error or does nothing, follows
\* no pointer the session does not hold (the absent container context
\* included) and asks the engine for no read or seek.
C26_UnopenedSessionUntouched ==
    (call.op # "none" /\ ~call.opened) =>
        /\ call.deref = {}
        /\ ~call.asked
        /\ call.ret <= 0

\* C30: movi_get_subtitle_text never writes at an index at or beyond
\* buffer_size, returns a length below buffer_size with the terminating NUL
\* at that index, and stores the separating newline of the second and later
\* rects without overwriting a character already extracted.
C30_SubtitleTextInsideBuffer ==
    (sub.out.called /\ sub.out.ret >= 0 /\ Len(sub.rects) > 0) =>
        /\ \A i \in sub.out.writes : i < sub.buffer_size
        /\ sub.out.ret < sub.buffer_size
        /\ sub.out.buffer[sub.out.ret + 1] = NUL
        /\ ~sub.out.over
====
